---- MODULE Spec2Model ----
(***************************************************************************)
(* A model of WordDumb's send_file.py: the device probe                    *)
(* (device_connected), the transfer orchestration (SendFile.send_files),   *)
(* the mounted transfer (move_files_to_kindle), the adb transfer           *)
(* (push_files_to_android) and dictionary provisioning                     *)
(* (copy_klld_to_device).                                                  *)
(*                                                                         *)
(* Python values are modelled as follows.  A bool that shares a variable   *)
(* with a str (package_name, the result of device_connected) is written    *)
(* as the string "True" or "False"; None is the string "None".  A file is  *)
(* a BOOLEAN (it exists or not) or, where its content matters, a tuple     *)
(* naming the content (<<>>: no file).  Sequential Python code is a pure   *)
(* operator from a world record to a world record; an exception is the     *)
(* field raised, and code after a raise does not run.                      *)
(***************************************************************************)
EXTENDS Integers, Sequences, FiniteSets, TLC

VARIABLES
    pc,           \* where the transfer stands: "start", "uploading", "adb_*", "done"
    inp,          \* the transfer request and the environment as first seen
    world,        \* local files, mounted device, GUI and mi.language
    android,      \* files of the Android device reached over adb
    cmdlog,       \* the adb commands issued so far, in order
    adb_failed,   \* the adb command that exited non-zero, or "none"
    probe,        \* device_connected: what the device manager and adb report
    connected     \* device_connected: its result, "pending" before the call

vars == <<pc, inp, world, android, cmdlog, adb_failed, probe, connected>>

\* ------------------------------------------------------------ bounds
\* Number of consecutive copy_klld_to_device calls SpecKlld makes.
MaxCalls == 2
\* Cap of the upload_books counter (the code calls it at most once).
MaxUploads == 3

\* ------------------------------------------------------- value domains
Formats == {"EPUB", "KFX", "AZW3"}
\* mi.language values: two of the language table and one that is not in it.
Languages == {"eng", "spa", "tlh"}
GlossLangs == {"en", "zh"}
Packages == {"com.amazon.kindle", "com.amazon.kindlefc"}

\* data/languages.json, in the order iterated: code -> value["639-2"].
SupportedLanguages ==
    << [code |-> "en", iso |-> "eng"], [code |-> "es", iso |-> "spa"] >>

LemmaCodes == {SupportedLanguages[i].code : i \in 1..Len(SupportedLanguages)}

\* prefs: the gloss language and the lemma languages for which the user
\* keeps the device's built-in Word Wise dictionary.
Prefs == [kindle_gloss_lang : GlossLangs, use_kindle : SUBSET LemmaCodes]

NoFile == <<>>
\* The dictionary a device ships with (none of the plugin's files).
StockKlld == <<"stock">>
KlldContents == {NoFile, StockKlld} \cup {<<l, g>> : l \in LemmaCodes, g \in GlossLangs}

\* ---------------------------------------------- dictionary provisioning

\* for code, value in supported_languages.items(): if value["639-2"] ==
\* book_lang: lemma_lang = code; break.  "UNBOUND": the loop never assigned
\* lemma_lang.
RECURSIVE lemma_lang_from(_, _)
lemma_lang_from(book_lang, i) ==
    IF i > Len(SupportedLanguages) THEN "UNBOUND"
    ELSE IF SupportedLanguages[i].iso = book_lang THEN SupportedLanguages[i].code
    ELSE lemma_lang_from(book_lang, i + 1)

lemma_lang_of(book_lang) == lemma_lang_from(book_lang, 1)

\* utils.use_kindle_ww_db(lemma_lang, prefs).
use_kindle_ww_db(lemma_lang, prefs) == lemma_lang \in prefs.use_kindle

\* utils.get_wiktionary_klld_path(plugin_path, lemma_lang, gloss_lang): the
\* local dictionary file, named by its content.
get_wiktionary_klld_path(lemma_lang, gloss_lang) == <<lemma_lang, gloss_lang>>

\* database.is_same_klld(local, device): content equality.
is_same_klld(local_klld, device_klld) == local_klld = device_klld

\* copy_klld_to_device up to the choice of transport: "raise" (reading the
\* unassigned lemma_lang raises UnboundLocalError), "skip" (the user keeps
\* the device's dictionary) or the local dictionary selected.
klld_lookup(book_lang, prefs) ==
    LET lemma_lang == lemma_lang_of(book_lang) IN
    IF lemma_lang = "UNBOUND" THEN [kind |-> "raise", path |-> NoFile]
    ELSE IF use_kindle_ww_db(lemma_lang, prefs) THEN [kind |-> "skip", path |-> NoFile]
    ELSE [kind |-> "select",
          path |-> get_wiktionary_klld_path(lemma_lang, prefs.kindle_gloss_lang)]

\* A provisioning that copies without comparing the two files.
klld_always_copy(local_klld, device_klld) == TRUE

\* The mounted branch's decision: copy when the destination is absent or is
\* not the same dictionary.
klld_needs_copy(local_klld, device_klld) ==
    IF device_klld = NoFile THEN TRUE
    ELSE IF ~is_same_klld(local_klld, device_klld) THEN TRUE
    ELSE FALSE

\* copy_klld_to_device(book_lang, device_klld_path, None) on world w.
copy_klld_to_device(w, book_lang, prefs) ==
    LET r == klld_lookup(book_lang, prefs) IN
    IF r.kind = "raise" THEN
        [w EXCEPT !.raised = "UnboundLocalError",
                  !.klld_log = Append(@, "raised")]
    ELSE IF r.kind = "skip" THEN
        [w EXCEPT !.klld_log = Append(@, "skipped")]
    ELSE IF klld_needs_copy(r.path, w.klld) THEN
        [w EXCEPT !.klld = r.path, !.selected = r.path,
                  !.klld_log = Append(@, "copied")]
    ELSE
        [w EXCEPT !.selected = r.path, !.klld_log = Append(@, "same")]

\* ------------------------------------------------------ mounted transfer
\* The two companion files, self.ll_path and self.x_ray_path.  Each is a
\* regular file or absent, so exists() and is_file() agree on it.
Companions == {"ll", "xray"}

\* A transfer that copies the file and leaves the source in place.
shutil_copy_only(w, f) == [w EXCEPT !.sidecar[f] = "new"]

\* shutil.move(file_path, dst_path, shutil.copy): the file is at the
\* destination and no longer at the source.
shutil_move(w, f) ==
    [w EXCEPT !.sidecar[f] = "new", !.local[f] = FALSE]

\* SendFile.move_file_to_kindle(file_path, device_book_path) for companion f.
move_file_to_kindle(w, f) ==
    IF ~w.local[f] THEN w
    ELSE LET w1 == IF ~w.sdr THEN [w EXCEPT !.sdr = TRUE] ELSE w
             w2 == IF w1.sidecar[f] # "none"
                   THEN [w1 EXCEPT !.sidecar[f] = "none"] ELSE w1
         IN shutil_move(w2, f)

\* SendFile.move_files_to_kindle.
move_files_to_kindle(w, prefs) ==
    LET w0 == [w EXCEPT !.moves = @ + 1]
        w1 == IF w0.local["ll"]
              THEN LET k == copy_klld_to_device(w0, w0.lang, prefs) IN
                   IF k.raised # "none" THEN k ELSE move_file_to_kindle(k, "ll")
              ELSE w0
    IN IF w1.raised # "none" THEN w1 ELSE move_file_to_kindle(w1, "xray")

\* metadata.get_asin_etc(device_book_path, fmt, mi, asin, set_en_lang): with
\* set_en_lang the device book's metadata language becomes English; whether
\* the ASIN had to be updated is the caller's input update_asin.
get_asin_etc(w, set_en_lang) ==
    IF set_en_lang THEN [w EXCEPT !.dev_lang_en = TRUE] ELSE w

\* An upload branch taken whenever the book is not moved.
upload_always(job, book_fmt) == TRUE

\* The elif of send_files that guards the upload.
upload_wanted(job, book_fmt) == job = "None" \/ book_fmt = "EPUB"

\* The upload branch: thumbnail, forced language, upload_books.
upload_book(w, set_en_lang, book_fmt) ==
    LET w1 == [w EXCEPT !.thumbs = TRUE]
        w2 == IF set_en_lang /\ book_fmt = "KFX"
              THEN [w1 EXCEPT !.lang = "eng"] ELSE w1
    IN [w2 EXCEPT !.upload_calls = @ + 1]

\* The job block at the head of the mounted path: "return" ends send_files.
job_block(w, job, book_fmt) ==
    IF job = "None" THEN [w |-> w, return |-> FALSE]
    ELSE IF job = "failed"
    THEN [w |-> [w EXCEPT !.job_exceptions = @ + 1], return |-> TRUE]
    ELSE LET w1 == [w EXCEPT !.books_uploaded = @ + 1] IN
         IF book_fmt = "EPUB"
         THEN [w |-> [w1 EXCEPT !.status = @ + 1, !.book = FALSE], return |-> TRUE]
         ELSE [w |-> w1, return |-> FALSE]

\* SendFile.send_files(job) when package_name is not a str.  job is "None",
\* "ok" or "failed"; has_book is the host's book_on_device answer and
\* update_asin what get_asin_etc reports.
send_files(w, job, has_book, update_asin, r) ==
    LET jb == job_block(w, job, r.fmt) IN
    IF jb.return THEN jb.w
    ELSE
    LET w0 == jb.w
        set_en_lang == w0.local["ll"] /\ r.fmt # "EPUB" /\ w0.lang # "eng"
    IN
    IF has_book /\ r.fmt # "EPUB" THEN
        LET w1 == IF job = "None"
                  THEN LET g == get_asin_etc(w0, set_en_lang) IN
                       IF update_asin THEN [g EXCEPT !.thumbs = TRUE] ELSE g
                  ELSE w0
            w2 == move_files_to_kindle(w1, r.prefs)
        IN IF w2.raised # "none" THEN w2
           ELSE LET w3 == IF r.stem_en THEN [w2 EXCEPT !.book = FALSE] ELSE w2
                IN [w3 EXCEPT !.status = @ + 1]
    ELSE IF upload_wanted(job, r.fmt) THEN upload_book(w0, set_en_lang, r.fmt)
    ELSE w0

\* ---------------------------------------------------------- adb transfer
\* The commands of push_files_to_android, in the order of the source.
AdbCommands == <<"push_book", "push_xray", "root", "push_stage", "cp",
                 "ls", "chown", "chcon", "push_klld">>

\* What `ls -ldZ <databases>` may print, split on white space: a full
\* listing, or fewer than five fields.
LsOutputs == { <<"drwxrwx--x", "2", "u0_a99", "u0_a99", "u:r:app:s0", "4096">>,
               <<"drwxrwx--x", "2", "u0_a99">> }

\* Where push_files_to_android goes after the book push and after the
\* X-Ray block; "return" is the end of push_files_to_android.
after_book(w) == IF w.local["xray"] THEN "adb_push_xray"
                 ELSE IF w.local["ll"] THEN "adb_root" ELSE "return"

after_xray(w) == IF w.local["ll"] THEN "adb_root" ELSE "return"

\* self.gui.status_bar.show_message(self.notif)
show_message(w) == [w EXCEPT !.status = @ + 1]

\* except subprocess.CalledProcessError of send_files: one JobError dialog
\* with the command's stderr (named by the command), then return.
show_error(w, cmd) == [w EXCEPT !.error_dialogs = Append(@, cmd)]

\* A handler that reports the failure and lets the sequence go on.
after_failure_continue(next) == next

\* Where send_files stands after the except clause handled a failure that
\* interrupted the way to `next`.
after_failure(next) == "done"

\* self.x_ray_path.unlink() / self.ll_path.unlink() after the pushes.
unlink_local(w, f) == [w EXCEPT !.local[f] = FALSE]

\* The device-side effect of a command that exited zero, and the Python
\* statements up to the next command.  ls is the listing printed.
adb_success(cmd, w, a, ls, prefs) ==
    CASE cmd = "push_book" ->
            [w |-> w, a |-> [a EXCEPT !.book = TRUE], next |-> after_book(w)]
      [] cmd = "push_xray" ->
            LET w1 == unlink_local(w, "xray") IN
            [w |-> w1, a |-> [a EXCEPT !.xray = TRUE], next |-> after_xray(w1)]
      [] cmd = "root" ->
            [w |-> w, a |-> [a EXCEPT !.rooted = TRUE], next |-> "adb_push_stage"]
      [] cmd = "push_stage" ->
            [w |-> w, a |-> [a EXCEPT !.staged = TRUE], next |-> "adb_cp"]
      [] cmd = "cp" ->
            [w |-> w, a |-> [a EXCEPT !.db_ll = TRUE, !.db_owner = "root",
                                      !.db_context = "none"],
             next |-> "adb_ls"]
      [] cmd = "ls" ->
            \* result.split()[4] and result.split()[2]
            IF Len(ls) < 5
            THEN [w |-> [w EXCEPT !.raised = "IndexError"], a |-> a, next |-> "raise"]
            ELSE [w |-> w, a |-> [a EXCEPT !.ls_owner = ls[3], !.ls_context = ls[5]],
                  next |-> "adb_chown"]
      [] cmd = "chown" ->
            [w |-> w, a |-> [a EXCEPT !.db_owner = a.ls_owner], next |-> "adb_chcon"]
      [] cmd = "chcon" ->
            LET w1 == unlink_local(w, "ll")
                r == klld_lookup(w1.lang, prefs)
                a1 == [a EXCEPT !.db_context = a.ls_context, !.labelled = TRUE]
            IN
            IF r.kind = "raise"
            THEN [w |-> [w1 EXCEPT !.raised = "UnboundLocalError",
                                   !.klld_log = Append(@, "raised")],
                  a |-> a1, next |-> "raise"]
            ELSE IF r.kind = "skip"
            THEN [w |-> [w1 EXCEPT !.klld_log = Append(@, "skipped")],
                  a |-> a1, next |-> "return"]
            ELSE [w |-> [w1 EXCEPT !.selected = r.path], a |-> a1,
                  next |-> "adb_push_klld"]
      [] cmd = "push_klld" ->
            [w |-> [w EXCEPT !.klld_log = Append(@, "copied")],
             a |-> [a EXCEPT !.klld = w.selected], next |-> "return"]

\* The command issued at each position of the adb path.
cmd_at(p) ==
    CASE p = "adb_push_book" -> "push_book"
      [] p = "adb_push_xray" -> "push_xray"
      [] p = "adb_root" -> "root"
      [] p = "adb_push_stage" -> "push_stage"
      [] p = "adb_cp" -> "cp"
      [] p = "adb_ls" -> "ls"
      [] p = "adb_chown" -> "chown"
      [] p = "adb_chcon" -> "chcon"
      [] p = "adb_push_klld" -> "push_klld"

\* ----------------------------------------------------------- device probe
Vendors == {"KINDLE", "KOBO", "None"}
\* `adb devices`, stripped and split on white space; <<>>: run_subprocess
\* gave no result.
DevicesOutputs == { <<>>, <<"attached">>, <<"attached", "serial", "device">>,
                    <<"attached", "serial", "offline">> }
\* `pm list packages com.amazon.kindle`, stripped and split on ":".
PmOutputs == { <<"">>, <<"package", "">>, <<"package", "com.amazon.kindle">>,
               <<"package", "com.amazon.kindlefc">> }

\* adb_connected: r.stdout.decode().strip().endswith("device") if r else False
adb_connected(devices_out) ==
    IF devices_out = <<>> THEN FALSE
    ELSE devices_out[Len(devices_out)] = "device"

\* get_package_name: result.split(":")[1] if the split has more than one part.
get_package_name(pm_out) ==
    IF Len(pm_out) > 1 THEN pm_out[2] ELSE "None"

\* A probe that takes any present device for a Kindle unless the book is
\* an EPUB.
mounted_probe_any_device(p, book_fmt) ==
    IF p.is_device_present /\ book_fmt # "EPUB"
    THEN [result |-> "True", dialogs |-> 0]
    ELSE [result |-> "fall", dialogs |-> 0]

\* The first block of device_connected: "True" (return True), or "fall"
\* (execution reaches the KFX test), with the number of EPUB dialogs shown.
mounted_probe(p, book_fmt) ==
    IF p.is_device_present THEN
        LET is_kindle == p.vendor = "KINDLE" IN
        IF book_fmt = "EPUB" THEN
            IF is_kindle THEN [result |-> "fall", dialogs |-> 1]
            ELSE [result |-> "True", dialogs |-> 0]
        ELSE IF is_kindle THEN [result |-> "True", dialogs |-> 0]
        ELSE [result |-> "fall", dialogs |-> 0]
    ELSE [result |-> "fall", dialogs |-> 0]

\* The second block of device_connected.
adb_probe(p, book_fmt) ==
    IF book_fmt = "KFX" THEN
        IF p.adb_path # "None" /\ adb_connected(p.devices_out) THEN
            LET package_name == get_package_name(p.pm_out) IN
            IF package_name \notin {"None", ""} THEN package_name ELSE "False"
        ELSE "False"
    ELSE "False"

\* device_connected(gui, book_fmt).
device_connected(p, book_fmt) ==
    LET m == mounted_probe(p, book_fmt) IN
    IF m.result = "True" THEN [result |-> "True", dialogs |-> m.dialogs]
    ELSE [result |-> adb_probe(p, book_fmt), dialogs |-> m.dialogs]

\* ------------------------------------------------------------ the states
SidecarStates ==
    { [sdr |-> FALSE, files |-> [f \in Companions |-> "none"]] } \cup
    { [sdr |-> TRUE, files |-> fs] : fs \in [Companions -> {"none", "old"}] }

\* The world a SendFile object starts in: __init__ reads the request; the
\* GUI has shown nothing yet.
world_of(r) ==
    [ lang |-> r.lang, local |-> r.local0, book |-> TRUE,
      sdr |-> r.sidecar0.sdr, sidecar |-> r.sidecar0.files, klld |-> r.klld0,
      selected |-> NoFile, klld_log |-> <<>>, dev_lang_en |-> FALSE,
      thumbs |-> FALSE, status |-> 0, raised |-> "none", moves |-> 0,
      upload_calls |-> 0, job_exceptions |-> 0, books_uploaded |-> 0,
      error_dialogs |-> <<>> ]

NoAndroid ==
    [ book |-> FALSE, xray |-> FALSE, rooted |-> FALSE, staged |-> FALSE,
      db_ll |-> FALSE, db_owner |-> "none", db_context |-> "none",
      ls_owner |-> "none", ls_context |-> "none", labelled |-> FALSE,
      klld |-> NoFile ]

NoSidecar == [sdr |-> FALSE, files |-> [f \in Companions |-> "none"]]

\* Requests of the mounted path: device_connected returned True.
MountedRequests ==
    [ fmt : Formats, lang : Languages, prefs : Prefs, stem_en : BOOLEAN,
      package_name : {"True"}, adb_path : {"None"},
      local0 : [Companions -> BOOLEAN], sidecar0 : SidecarStates,
      klld0 : KlldContents ]

\* Requests of the adb path: device_connected returns a package name for
\* KFX books only.
AndroidRequests ==
    [ fmt : {"KFX"}, lang : Languages, prefs : Prefs, stem_en : BOOLEAN,
      package_name : Packages, adb_path : {"None", "adb"},
      local0 : [Companions -> BOOLEAN], sidecar0 : {NoSidecar},
      klld0 : {NoFile} ]

\* Requests of direct copy_klld_to_device calls over the mounted transport.
KlldRequests ==
    [ fmt : {"KFX"}, lang : Languages, prefs : Prefs, stem_en : {FALSE},
      package_name : {"True"}, adb_path : {"None"},
      local0 : {[f \in Companions |-> FALSE]}, sidecar0 : {NoSidecar},
      klld0 : KlldContents ]

NoRequest == CHOOSE r \in KlldRequests : r.lang = "eng" /\ r.klld0 = NoFile
    /\ r.prefs = [kindle_gloss_lang |-> "en", use_kindle |-> {}]

Probes ==
    [ is_device_present : BOOLEAN, vendor : Vendors, fmt : Formats,
      adb_path : {"None", "adb"}, devices_out : DevicesOutputs,
      pm_out : PmOutputs ]

NoProbe == CHOOSE q \in Probes : ~q.is_device_present /\ q.vendor = "None"
    /\ q.fmt = "EPUB" /\ q.adb_path = "None" /\ q.devices_out = <<>>
    /\ q.pm_out = <<"">>

Pending == [result |-> "pending", dialogs |-> 0]

IsStr(package_name) == package_name \notin {"True", "False"}

\* --------------------------------------------------- the transfer (Spec)
Init ==
    /\ pc = "start"
    /\ inp \in MountedRequests \cup AndroidRequests
    /\ world = world_of(inp)
    /\ android = NoAndroid
    /\ cmdlog = <<>>
    /\ adb_failed = "none"
    /\ probe = NoProbe
    /\ connected = Pending

\* send_files(None) on the mounted path.
SendFilesMounted ==
    /\ pc = "start"
    /\ ~IsStr(inp.package_name)
    /\ \E has_book \in BOOLEAN, update_asin \in BOOLEAN :
         world' = send_files(world, "None", has_book, update_asin, inp)
    /\ pc' = IF world'.upload_calls > world.upload_calls THEN "uploading" ELSE "done"
    /\ UNCHANGED <<inp, android, cmdlog, adb_failed, probe, connected>>

\* The host's upload job ends and the dispatcher calls send_files(job).
SendFilesJob ==
    /\ pc = "uploading"
    /\ world.upload_calls < MaxUploads
    /\ \E job \in {"ok", "failed"}, has_book \in BOOLEAN :
         world' = send_files(world, job, has_book, FALSE, inp)
    /\ pc' = IF world'.upload_calls > world.upload_calls THEN "uploading" ELSE "done"
    /\ UNCHANGED <<inp, android, cmdlog, adb_failed, probe, connected>>

\* send_files on the adb path: which_adb() finds nothing and it returns.
SendFilesNoAdb ==
    /\ pc = "start"
    /\ IsStr(inp.package_name)
    /\ inp.adb_path = "None"
    /\ pc' = "done"
    /\ UNCHANGED <<inp, world, android, cmdlog, adb_failed, probe, connected>>

\* send_files on the adb path: which_adb() finds adb and
\* push_files_to_android starts.
SendFilesAndroid ==
    /\ pc = "start"
    /\ IsStr(inp.package_name)
    /\ inp.adb_path # "None"
    /\ pc' = "adb_push_book"
    /\ UNCHANGED <<inp, world, android, cmdlog, adb_failed, probe, connected>>

\* utils.run_subprocess(args): the call raises subprocess.CalledProcessError
\* when the command exits non-zero.
run_subprocess_raises(exit_ok) == ~exit_ok

\* Where a position of push_files_to_android lands in send_files.
landing(next) == IF next \in {"return", "raise"} THEN "done" ELSE next

\* One run_subprocess call of push_files_to_android at position p and the
\* statements that follow it: the command exits zero (ok) or not.
AdbStep(p) ==
    /\ \E ok \in BOOLEAN, ls \in LsOutputs :
         LET cmd == cmd_at(p)
             s == adb_success(cmd, world, android, ls, inp.prefs)
         IN /\ cmdlog' = Append(cmdlog, cmd)
            /\ IF ~run_subprocess_raises(ok)
               THEN /\ android' = s.a
                    /\ world' = IF s.next = "return" THEN show_message(s.w) ELSE s.w
                    /\ pc' = landing(s.next)
                    /\ adb_failed' = adb_failed
               ELSE /\ android' = android
                    /\ world' = show_error(world, cmd)
                    /\ pc' = landing(after_failure(s.next))
                    /\ adb_failed' = cmd
    /\ UNCHANGED <<inp, probe, connected>>

AdbPushBook ==
    /\ pc = "adb_push_book"
    /\ AdbStep("adb_push_book")

AdbPushXray ==
    /\ pc = "adb_push_xray"
    /\ AdbStep("adb_push_xray")

AdbRoot ==
    /\ pc = "adb_root"
    /\ AdbStep("adb_root")

AdbPushStage ==
    /\ pc = "adb_push_stage"
    /\ AdbStep("adb_push_stage")

AdbCp ==
    /\ pc = "adb_cp"
    /\ AdbStep("adb_cp")

AdbLs ==
    /\ pc = "adb_ls"
    /\ AdbStep("adb_ls")

AdbChown ==
    /\ pc = "adb_chown"
    /\ AdbStep("adb_chown")

AdbChcon ==
    /\ pc = "adb_chcon"
    /\ AdbStep("adb_chcon")

AdbPushKlld ==
    /\ pc = "adb_push_klld"
    /\ AdbStep("adb_push_klld")


Next ==
    \/ SendFilesMounted
    \/ SendFilesJob
    \/ SendFilesNoAdb
    \/ SendFilesAndroid
    \/ AdbPushBook
    \/ AdbPushXray
    \/ AdbRoot
    \/ AdbPushStage
    \/ AdbCp
    \/ AdbLs
    \/ AdbChown
    \/ AdbChcon
    \/ AdbPushKlld

Spec == Init /\ [][Next]_vars

\* ------------------------------- dictionary provisioning alone (SpecKlld)
InitKlld ==
    /\ pc = "klld"
    /\ inp \in KlldRequests
    /\ world = world_of(inp)
    /\ android = NoAndroid
    /\ cmdlog = <<>>
    /\ adb_failed = "none"
    /\ probe = NoProbe
    /\ connected = Pending

\* One more call copy_klld_to_device(book_lang, device_klld_path, None);
\* nothing else touches the two dictionary files between the calls.
CopyKlldCall ==
    /\ pc = "klld"
    /\ Len(world.klld_log) < MaxCalls
    /\ world' = copy_klld_to_device([world EXCEPT !.raised = "none"],
                                    inp.lang, inp.prefs)
    /\ UNCHANGED <<pc, inp, android, cmdlog, adb_failed, probe, connected>>

NextKlld == CopyKlldCall

SpecKlld == InitKlld /\ [][NextKlld]_vars

\* ------------------------------------------- the device probe (SpecProbe)
InitProbe ==
    /\ pc = "probe"
    /\ inp = NoRequest
    /\ world = world_of(inp)
    /\ android = NoAndroid
    /\ cmdlog = <<>>
    /\ adb_failed = "none"
    /\ probe \in Probes
    /\ connected = Pending

\* The caller asks device_connected(gui, book_fmt).
DeviceConnected ==
    /\ pc = "probe"
    /\ connected = Pending
    /\ connected' = device_connected(probe, probe.fmt)
    /\ pc' = "probed"
    /\ UNCHANGED <<inp, world, android, cmdlog, adb_failed, probe>>

NextProbe == DeviceConnected

SpecProbe == InitProbe /\ [][NextProbe]_vars

\* ------------------------------------------------------------ properties
Mounted == ~IsStr(inp.package_name)

\* The local dictionary the request's own language and the preferences name.
RequestKlld ==
    get_wiktionary_klld_path(lemma_lang_of(inp.lang), inp.prefs.kindle_gloss_lang)

\* C1: when move_files_to_kindle has run, every companion file that was
\* present locally is in the sidecar directory, every absent one left the
\* sidecar as it was, and with both absent the sidecar directory is as it
\* was before (absent if it was absent).
C1_MovesExactlyPresent ==
    (pc = "done" /\ world.moves > 0) =>
        /\ \A f \in Companions :
             IF inp.local0[f] THEN world.sidecar[f] = "new"
             ELSE world.sidecar[f] = inp.sidecar0.files[f]
        /\ (\A f \in Companions : ~inp.local0[f]) => world.sdr = inp.sidecar0.sdr

\* A companion file is on the device by a finished transfer: moved into the
\* sidecar, pushed (X-Ray), or pushed, copied, owned and labelled (lookup).
OnDeviceByTransfer(f) ==
    \/ world.sidecar[f] = "new"
    \/ f = "xray" /\ android.xray
    \/ f = "ll" /\ android.labelled

\* C2: no companion file is on the device by a finished transfer and still
\* in local storage.
C2_TransferredNotLocal ==
    \A f \in Companions : OnDeviceByTransfer(f) => ~world.local[f]

C2_Witness ==
    /\ pc = "done"
    /\ world.status = 1
    /\ \A f \in Companions : inp.local0[f] /\ OnDeviceByTransfer(f)

\* C3: a copy_klld_to_device call with a language of no table entry raises
\* nothing and copies nothing, and the caller's run ends with the status
\* message shown.
C3_UnknownLanguageNoOp ==
    (world.klld_log # <<>> /\ lemma_lang_of(world.lang) = "UNBOUND") =>
        /\ world.raised = "none"
        /\ world.klld = inp.klld0
        /\ android.klld = NoFile
        /\ pc = "done" => world.status = 1

\* The Android branch of the probe applies: KFX, adb found, a device
\* answers, and the package list names a package.
AndroidAnswers(q) ==
    /\ q.fmt = "KFX"
    /\ q.adb_path # "None"
    /\ q.devices_out # <<>>
    /\ q.devices_out[Len(q.devices_out)] = "device"
    /\ Len(q.pm_out) > 1
    /\ q.pm_out[2] # ""

KindleMounted(q) ==
    q.is_device_present /\ q.vendor = "KINDLE" /\ q.fmt # "EPUB"

\* C4 as stated: True only for a present Kindle and a non-EPUB book, a
\* package name only when that does not apply and the Android branch does,
\* False in every other case.
C4_OnlyKindleIsMounted ==
    connected # Pending =>
        /\ connected.result = "True" => KindleMounted(probe)
        /\ IsStr(connected.result) => ~KindleMounted(probe) /\ AndroidAnswers(probe)
        /\ (~KindleMounted(probe) /\ ~AndroidAnswers(probe))
               => connected.result = "False"

\* A present device that takes the book as it is: a Kindle and a non-EPUB
\* book, or another device and an EPUB.
DeviceTakesBook(q) ==
    q.is_device_present /\ ((q.vendor = "KINDLE") = (q.fmt # "EPUB"))

\* C4 amended: True exactly for a present device that is a Kindle with a
\* non-EPUB book or a non-Kindle with an EPUB; a package name exactly when
\* that does not apply and the Android branch does; False otherwise, and
\* the EPUB dialog exactly for a present Kindle and an EPUB.
C4_ProbeResult ==
    connected # Pending =>
        /\ (connected.result = "True") = DeviceTakesBook(probe)
        /\ IsStr(connected.result)
               = (~DeviceTakesBook(probe) /\ AndroidAnswers(probe))
        /\ IsStr(connected.result) => connected.result = probe.pm_out[2]
        /\ connected.dialogs = IF probe.is_device_present
                                  /\ probe.vendor = "KINDLE" /\ probe.fmt = "EPUB"
                               THEN 1 ELSE 0

C4_Witness ==
    /\ connected.result = "True"
    /\ probe.fmt = "EPUB"
    /\ probe.vendor = "KOBO"

\* The adb commands that exited zero before the failure.
Succeeded(cmd) ==
    \E i \in 1..Len(cmdlog) : cmdlog[i] = cmd /\ cmd # adb_failed

\* C5: once an adb command has exited non-zero, send_files has ended, the
\* failed command is the last one issued and was issued once, the local
\* files deleted are those whose push sequence ended before the failure,
\* the status message is not shown and one error dialog carries the failed
\* command's stderr.
C5_FailureAborts ==
    adb_failed # "none" =>
        /\ pc = "done"
        /\ cmdlog[Len(cmdlog)] = adb_failed
        /\ \A i, j \in 1..Len(cmdlog) : cmdlog[i] = cmdlog[j] => i = j
        /\ world.local["xray"] = (inp.local0["xray"] /\ ~Succeeded("push_xray"))
        /\ world.local["ll"] = (inp.local0["ll"] /\ ~Succeeded("chcon"))
        /\ world.status = 0
        /\ world.error_dialogs = <<adb_failed>>
        /\ world.raised = "none"

C5_Witness ==
    /\ adb_failed = "chown"
    /\ pc = "done"
    /\ android.xray
    /\ world.local["ll"]

\* C6: once the owner and the security label are applied to the copied
\* lookup database, neither the local lookup DB nor the staged copy on
\* /sdcard exists, and so at the end of the transfer.
C6_LocalAndStagedDeleted ==
    android.labelled => ~world.local["ll"] /\ ~android.staged

\* C7: the dictionary provisioning selects is the one of the request's
\* book language and the preferences, on every path of send_files.
C7_DictionaryOfRequestLanguage ==
    world.selected # NoFile => world.selected = RequestKlld

\* C8: a mounted run for a KFX book the device already has, with both
\* companion files present locally and a non-English language, ends with
\* the device book's language forced to English, both files in the
\* sidecar, none of them left locally, and the status message shown.
C8_MountedEndToEnd ==
    ( /\ pc = "done" /\ Mounted /\ inp.fmt = "KFX" /\ inp.lang # "eng"
      /\ \A f \in Companions : inp.local0[f]
      /\ world.moves > 0 /\ world.upload_calls = 0 ) =>
        /\ world.dev_lang_en
        /\ \A f \in Companions : world.sidecar[f] = "new" /\ ~world.local[f]
        /\ world.status = 1

Copies == Cardinality({i \in 1..Len(world.klld_log) : world.klld_log[i] = "copied"})

\* C9 as stated, for a language of the table whose dictionary the plugin
\* provides: two consecutive mounted calls make exactly one copy, the second
\* none, and the device dictionary is the local one.
C9_ExactlyOneCopy ==
    (Len(world.klld_log) = 2 /\ klld_lookup(inp.lang, inp.prefs).kind = "select") =>
        /\ Copies = 1
        /\ world.klld_log[2] # "copied"
        /\ world.klld = RequestKlld

\* C9 amended: of consecutive mounted calls only the first may copy, and it
\* copies exactly when the device dictionary was absent or different before
\* it; after each call that selects a dictionary the device dictionary is
\* the local one.
C9_Idempotent ==
    /\ \A i \in 2..Len(world.klld_log) : world.klld_log[i] # "copied"
    /\ (world.klld_log # <<>> /\ klld_lookup(inp.lang, inp.prefs).kind = "select") =>
          /\ (world.klld_log[1] = "copied") = (inp.klld0 # RequestKlld)
          /\ world.klld = RequestKlld
          /\ world.selected = RequestKlld

C9_Witness ==
    /\ pc = "klld"
    /\ world.klld_log = <<"copied", "same">>
    /\ inp.klld0 = StockKlld

\* C10: upload_books is called at most once for a request, and after a
\* re-entry with a job send_files is not waiting for another upload.
C10_UploadAtMostOnce ==
    /\ world.upload_calls <= 1
    /\ (world.books_uploaded + world.job_exceptions > 0) => pc = "done"

C10_Witness ==
    /\ pc = "done"
    /\ world.upload_calls = 1
    /\ world.books_uploaded = 1
    /\ inp.fmt = "KFX"
    /\ world.moves = 0

====
